---- MODULE Spec2Model ----
(***************************************************************************)
(* s3-lambda: batch requests (each, forEach, map, reduce, filter) over the *)
(* objects of S3 contexts.  The model follows lib/Request.js, lib/index.js *)
(* (class S3Lambda) and lib/S3.js; the runner is the npm package `batch`   *)
(* as those files drive it, the store is the S3 client behind lib/S3.js.   *)
(*                                                                         *)
(* Strings (keys, prefixes, bodies) are sequences of character codes.      *)
(***************************************************************************)
EXTENDS Integers, Sequences, FiniteSets, TLC

\* ------------------------------------------------------------------ bounds
\* Objects under the source prefix in the store of the batch specification.
NumObjects == 3
\* Store, callback and listing failures one run may inject.
MaxFailures == 2
\* Largest page size of the store in the listing specification.
MaxPage == 3

\* Largest concurrency the concurrency modifier is called with.
MaxConc == 2
\* Page size of the store in the batch specification.
BatchPageSize == 2
\* Terminal calls made one after the other on one Request.
MaxCalls == 2

\* ------------------------------------------------------- program constants
\* opts.concurrency of a new Request, and of a new Batch: Infinity.
Infinity == 1000000

\* ---------------------------------------------------------- JavaScript values
\* A value is [t |-> its typeof (or "null", "error"), v |-> a sequence].
JNull == [t |-> "null", v |-> <<>>]
JUndefined == [t |-> "undefined", v |-> <<>>]
JStr(s) == [t |-> "string", v |-> s]
JBool(b) == [t |-> "boolean", v |-> IF b THEN <<1>> ELSE <<>>]
JObj(o) == [t |-> "object", v |-> <<o>>]
JErr(e) == [t |-> "error", v |-> <<e>>]

\* !x : null, undefined, '' and false are falsy
Falsy(x) == x.v = <<>>

\* a || b
Or(a, b) == IF Falsy(a) THEN b ELSE a

\* x == null
IsNullish(x) == x.t \in {"null", "undefined"}

\* ----------------------------------------------------------------- strings
Min(a, b) == IF a < b THEN a ELSE b

IsPrefixOf(p, s) == Len(p) <= Len(s) /\ SubSeq(s, 1, Len(p)) = p

\* a < b in the store's (lexicographic) key order
LexLess(a, b) ==
  \/ /\ Len(a) < Len(b)
     /\ SubSeq(b, 1, Len(a)) = a
  \/ \E i \in 1..Min(Len(a), Len(b)) :
       /\ SubSeq(a, 1, i - 1) = SubSeq(b, 1, i - 1)
       /\ a[i] < b[i]

\* String.prototype.indexOf: 0-based position of the first occurrence, or -1
IndexOf(s, sub) ==
  LET hits == {i \in 0..(Len(s) - Len(sub)) : SubSeq(s, i + 1, i + Len(sub)) = sub}
  IN  IF hits = {} THEN -1 ELSE CHOOSE i \in hits : \A j \in hits : i <= j

\* String.prototype.replace with a string pattern: the first occurrence only
Replace(s, pat, rep) ==
  LET at == IndexOf(s, pat)
  IN  IF at = -1 THEN s
      ELSE SubSeq(s, 1, at) \o rep \o SubSeq(s, at + Len(pat) + 1, Len(s))

\* String.prototype.slice(n)
Slice(s, n) == SubSeq(s, n + 1, Len(s))

\* Array.prototype.reverse
Reverse(s) == [i \in 1..Len(s) |-> s[Len(s) + 1 - i]]

\* Array.prototype.slice(0, n)
Take(s, n) == SubSeq(s, 1, Min(n, Len(s)))

RECURSIVE SortKeys(_)
SortKeys(S) ==
  IF S = {} THEN <<>>
  ELSE LET least == CHOOSE k \in S : \A o \in S \ {k} : LexLess(k, o)
       IN  <<least>> \o SortKeys(S \ {least})

RECURSIVE Flatten(_)
Flatten(ss) == IF ss = <<>> THEN <<>> ELSE Head(ss) \o Flatten(Tail(ss))

Range(s) == {s[i] : i \in DOMAIN s}

\* Buffer.toString('utf8') and its inverse on the bytes the model stores: a
\* byte below 128 is its character, any other byte decodes to U+FFFD
Utf8Decode(bytes) == [i \in 1..Len(bytes) |-> IF bytes[i] < 128 THEN bytes[i] ELSE 65533]
Utf8Byte(c) == IF c < 128 THEN <<c>> ELSE <<239, 191, 189>>
Utf8Encode(str) == Flatten([i \in 1..Len(str) |-> Utf8Byte(str[i])])

\* ------------------------------------------------------------------- state
VARIABLES
  store,        \* the bucket: a function from the keys it holds to [Body |-> bytes]
  pageSize,     \* most keys the store returns for one listObjects call
  ctxs,         \* the contexts handed to S3Lambda.context
  req,          \* "new" before S3Lambda.context, "created" after
  lsPc,         \* per context: position of keys/listRecursive
  lsMarker,     \* per context: Marker of the listObjects call in flight
  lsAll,        \* per context: allKeys
  lsCalls,      \* per context: the Marker of every listObjects call made
  ctxRes,       \* findObjects: the batch's results (one per context)
  fBatch,       \* findObjects: the batch's pending count and done flag
  objects,      \* Request.getObjects, the promise findObjects returned
  opts,         \* Request.opts
  target,       \* Request.target
  destructive,  \* Request.destructive
  call,         \* the terminal call made on the Request
  promise,      \* the promise the terminal call returned
  sources,      \* what resolveSources handed the terminal call
  batch,        \* the terminal call's Batch: n, index, pending, done
  task,         \* per source: position of the function pushed on the batch
  accumulator,  \* reduce's accumulator
  accArg,       \* per source: the accumulator the reducer was called with
  result,       \* per source: what the user's function produced
  out,          \* per source: the put/copy/delete it has in flight
  invoked,      \* per source: how often the user's function was called
  calls,        \* every get/put/copy/delete issued to the store
  failures      \* failures injected so far

lsVars == <<lsPc, lsMarker, lsAll, lsCalls, ctxRes, fBatch, objects>>
cfgVars == <<opts, target, destructive>>
runVars == <<call, promise, sources, batch, task, accumulator, accArg, result, out, invoked>>
vars == <<store, pageSize, ctxs, req, lsVars, cfgVars, runVars, calls, failures>>

\* ------------------------------------------------------------------- store
Exists(st, k) == k \in DOMAIN st

StorePut(st, k, obj) == [x \in DOMAIN st \cup {k} |-> IF x = k THEN obj ELSE st[x]]

StoreDelete(st, k) == [x \in DOMAIN st \ {k} |-> st[x]]

\* s3Instance.listObjects({Bucket, Prefix, Marker}): the keys with the prefix
\* strictly after the marker, in key order, at most max of them
ListObjects(st, prefix, marker, max) ==
  LET matching == {k \in DOMAIN st : IsPrefixOf(prefix, k) /\ LexLess(marker, k)}
      sorted == SortKeys(matching)
  IN  [Contents |-> [i \in 1..Min(max, Len(sorted)) |->
                       [Key |-> sorted[i], Size |-> Len(st[sorted[i]].Body)]],
       IsTruncated |-> Len(sorted) > max]

\* ------------------------------------------------------- S3.keys (lib/S3.js)
\* The scan for endPrefix as a prefix of the key only
StopIndexPrefixOnly(keyValues, endPrefix) ==
  LET hits == {i \in 1..Len(keyValues) : IsPrefixOf(endPrefix, keyValues[i])}
  IN  IF Len(endPrefix) > 0 /\ hits # {}
      THEN CHOOSE i \in hits : \A j \in hits : i <= j
      ELSE 0

\* The first key of the page that holds endPrefix (0: none, or no endPrefix)
StopIndex(keyValues, endPrefix) ==
  LET hits == {i \in 1..Len(keyValues) : IndexOf(keyValues[i], endPrefix) > -1}
  IN  IF Len(endPrefix) > 0 /\ hits # {}
      THEN CHOOSE i \in hits : \A j \in hits : i <= j
      ELSE 0

\* listRecursive keeping only the page at hand (allKeys = keyValues, not concat)
listRecursiveOverwrite(keys, endPrefix, allKeys) ==
  IF Len(keys.Contents) = 0 THEN [next |-> "empty", allKeys |-> allKeys, marker |-> <<>>]
  ELSE
    LET keyValues == [i \in 1..Len(keys.Contents) |-> keys.Contents[i].Key]
    IN  IF keys.IsTruncated
        THEN [next |-> "more", allKeys |-> keyValues,
              marker |-> keys.Contents[Len(keys.Contents)].Key]
        ELSE [next |-> "done", allKeys |-> keyValues, marker |-> <<>>]

\* The body of listRecursive's listObjects callback on a successful response, and
\* what it does next ("empty": done(), "more": recurse, "done": done(null, allKeys))
listRecursive(keys, endPrefix, allKeys) ==
  IF Len(keys.Contents) = 0 THEN [next |-> "empty", allKeys |-> allKeys, marker |-> <<>>]
  ELSE
    LET keyValues == [i \in 1..Len(keys.Contents) |-> keys.Contents[i].Key]
        stop == StopIndex(keyValues, endPrefix)
        stopPrefixReached == stop > 0
        kept == IF stopPrefixReached THEN SubSeq(keyValues, 1, stop - 1) ELSE keyValues
    IN  IF keys.IsTruncated /\ ~stopPrefixReached
        THEN [next |-> "more", allKeys |-> allKeys \o kept,
              marker |-> keys.Contents[Len(keys.Contents)].Key]
        ELSE [next |-> "done", allKeys |-> allKeys \o kept, marker |-> <<>>]

\* keys' callback: allKeys.filter(key => key.length > 0)
NonEmptyKey(k) == Len(k) > 0
keys(allKeys) == SelectSeq(allKeys, NonEmptyKey)

\* ------------------------------------- S3Lambda.findObjects (lib/index.js)
\* One context's keys as the sources findObjects hands its batch (context.match
\* is not set in any context of the model)
ContextSources(context, ks) ==
  LET formatted == [i \in 1..Len(ks) |->
                      [bucket |-> context.bucket, prefix |-> context.prefix, key |-> ks[i]]]
      reversed == IF context.reverse THEN Reverse(formatted) ELSE formatted
  IN  IF context.limit # 0 THEN Take(reversed, context.limit) ELSE reversed

Contexts == 1..Len(ctxs)

\* S3Lambda.context making the Request without calling findObjects
ContextLazy ==
  /\ req = "new"
  /\ req' = "created"
  /\ UNCHANGED <<store, pageSize, ctxs, lsVars, cfgVars, runVars, calls, failures>>

\* S3Lambda.context: new Request(this.findObjects(contexts), this).  findObjects
\* ends its batch at once, so every context's first listObjects call is made here.
Context ==
  /\ req = "new"
  /\ req' = "created"
  /\ lsPc' = [c \in Contexts |-> "wait"]
  /\ lsMarker' = [c \in Contexts |-> ctxs[c].marker]
  /\ lsCalls' = [c \in Contexts |-> <<ctxs[c].marker>>]
  /\ UNCHANGED <<store, pageSize, ctxs, lsAll, ctxRes, fBatch, objects,
                 cfgVars, runVars, calls, failures>>

\* The batch's callback keeping the results in the order they arrive
FindDoneArrival(c, err, res) ==
  IF fBatch.done THEN UNCHANGED <<ctxRes, fBatch, objects>>
  ELSE IF ~Falsy(err)
  THEN /\ fBatch' = [fBatch EXCEPT !.done = TRUE]
       /\ objects' = [state |-> "rejected", value |-> <<>>, error |-> err]
       /\ UNCHANGED ctxRes
  ELSE /\ ctxRes' = [ctxRes EXCEPT ![Len(ctxs) - fBatch.pending + 1] = res]
       /\ fBatch' = [fBatch EXCEPT !.pending = @ - 1]
       /\ objects' = IF fBatch.pending = 1
                     THEN [state |-> "resolved", value |-> Flatten(ctxRes'), error |-> JNull]
                     ELSE objects

\* The batch's callback taking a failed context for one without keys
FindDoneSkipsFailed(c, err, res) ==
  IF fBatch.done THEN UNCHANGED <<ctxRes, fBatch, objects>>
  ELSE /\ ctxRes' = [ctxRes EXCEPT ![c] = IF ~Falsy(err) THEN <<>> ELSE res]
       /\ fBatch' = [fBatch EXCEPT !.pending = @ - 1]
       /\ objects' = IF fBatch.pending = 1
                     THEN [state |-> "resolved", value |-> Flatten(ctxRes'), error |-> JNull]
                     ELSE objects

\* The findObjects batch's callback for context c: done(err, sources)
FindDone(c, err, res) ==
  IF fBatch.done THEN UNCHANGED <<ctxRes, fBatch, objects>>
  ELSE IF ~Falsy(err)
  THEN /\ fBatch' = [fBatch EXCEPT !.done = TRUE]
       /\ objects' = [state |-> "rejected", value |-> <<>>, error |-> err]
       /\ UNCHANGED ctxRes
  ELSE /\ ctxRes' = [ctxRes EXCEPT ![c] = res]
       /\ fBatch' = [fBatch EXCEPT !.pending = @ - 1]
       /\ objects' = IF fBatch.pending = 1
                     THEN [state |-> "resolved", value |-> Flatten(ctxRes'), error |-> JNull]
                     ELSE objects

\* listObjects answers the call context c has in flight
ListRespond(c) ==
  /\ req = "created"
  /\ lsPc[c] = "wait"
  /\ LET resp == ListObjects(store, ctxs[c].prefix, lsMarker[c], pageSize)
         step == listRecursive(resp, ctxs[c].endPrefix, lsAll[c])
     IN  CASE step.next = "more" ->
                /\ lsAll' = [lsAll EXCEPT ![c] = step.allKeys]
                /\ lsMarker' = [lsMarker EXCEPT ![c] = step.marker]
                /\ lsCalls' = [lsCalls EXCEPT ![c] = Append(@, step.marker)]
                /\ UNCHANGED <<lsPc, ctxRes, fBatch, objects>>
           [] step.next = "done" ->
                /\ lsAll' = [lsAll EXCEPT ![c] = step.allKeys]
                /\ lsPc' = [lsPc EXCEPT ![c] = "done"]
                /\ FindDone(c, JNull, ContextSources(ctxs[c], keys(step.allKeys)))
                /\ UNCHANGED <<lsMarker, lsCalls>>
           [] OTHER ->
                \* done() without keys: keys' callback throws on allKeys.filter,
                \* outside any promise; the promise keys returned never settles
                /\ lsPc' = [lsPc EXCEPT ![c] = "crash"]
                /\ UNCHANGED <<lsAll, lsMarker, lsCalls, ctxRes, fBatch, objects>>
  /\ UNCHANGED <<store, pageSize, ctxs, req, cfgVars, runVars, calls, failures>>

\* listObjects fails: done(err), keys rejects, findObjects' batch gets done(e)
ListFail(c) ==
  /\ req = "created"
  /\ lsPc[c] = "wait"
  /\ failures < MaxFailures
  /\ failures' = failures + 1
  /\ lsPc' = [lsPc EXCEPT ![c] = "fail"]
  /\ FindDone(c, JErr("ListError"), <<>>)
  /\ UNCHANGED <<store, pageSize, ctxs, req, lsMarker, lsAll, lsCalls,
                 cfgVars, runVars, calls>>

\* ------------------------------------------------ Request (lib/Request.js)
\* Request.constructor's opts
DefaultOpts == [concurrency |-> Infinity, transformer |-> "none", encoding |-> "utf8",
                reverse |-> FALSE, exclude |-> "none", async |-> FALSE, limit |-> 0]

NoTarget == [isNull |-> TRUE, bucket |-> "", prefix |-> <<>>, rename |-> "none"]

\* No terminal call.  A call's conf and prev are history, read by no action: the
\* options and target as they were when the call was made, and the sources the
\* Request's terminal call before it iterated.
NoConf == [opts |-> DefaultOpts, target |-> NoTarget]
NoCall == [op |-> "none", entry |-> "none", func |-> "none", isAsync |-> FALSE, n |-> 0,
           initialValue |-> JNull, conf |-> NoConf, prev |-> <<>>, nth |-> 0]

NoBatch == [begun |-> FALSE, index |-> 0, pending |-> 0, done |-> FALSE,
            encoding |-> "utf8", transformer |-> "none"]

NoOut == [op |-> "none", key |-> <<>>, from |-> <<>>, body |-> JNull]

\* The user's functions.  A file name is renamed by appending a character; the
\* mapper is addSmiley (README, map) or the identity; the reducer is the one of
\* the tests
RenameFn(name, fileName) == IF name = "suffix" THEN fileName \o <<9>> ELSE fileName
ExcludeFn(name, key) == name = "odd" /\ key[Len(key)] % 2 = 1
MapFn(name, val, key) == IF name = "addSmiley" THEN JStr(val.v \o <<58, 41>>) ELSE val
ReduceFn(prev, cur, key) == IF Falsy(prev) THEN cur ELSE JStr(prev.v \o cur.v)
TransformFn(name, object, key) == JStr(Reverse(Utf8Decode(object.Body)))

\* Request.concurrency
concurrency(c) ==
  /\ req = "created"
  /\ opts' = [opts EXCEPT !.concurrency = c]
  /\ UNCHANGED <<store, pageSize, ctxs, req, lsVars, target, destructive, runVars,
                 calls, failures>>

\* Request.exclude
exclude(e) ==
  /\ req = "created"
  /\ opts' = [opts EXCEPT !.exclude = e]
  /\ UNCHANGED <<store, pageSize, ctxs, req, lsVars, target, destructive, runVars,
                 calls, failures>>

\* Request.limit
limit(l) ==
  /\ req = "created"
  /\ opts' = [opts EXCEPT !.limit = l]
  /\ UNCHANGED <<store, pageSize, ctxs, req, lsVars, target, destructive, runVars,
                 calls, failures>>

\* Request.reverse
reverse ==
  /\ req = "created"
  /\ opts' = [opts EXCEPT !.reverse = TRUE]
  /\ UNCHANGED <<store, pageSize, ctxs, req, lsVars, target, destructive, runVars,
                 calls, failures>>

\* Request.encode
encode(encoding) ==
  /\ req = "created"
  /\ opts' = [opts EXCEPT !.encoding = encoding]
  /\ UNCHANGED <<store, pageSize, ctxs, req, lsVars, target, destructive, runVars,
                 calls, failures>>

\* Request.transform
transform(transformer) ==
  /\ req = "created"
  /\ opts' = [opts EXCEPT !.transformer = transformer]
  /\ UNCHANGED <<store, pageSize, ctxs, req, lsVars, target, destructive, runVars,
                 calls, failures>>

\* Request.inplace
inplace ==
  /\ req = "created"
  /\ destructive' = TRUE
  /\ UNCHANGED <<store, pageSize, ctxs, req, lsVars, opts, target, runVars,
                 calls, failures>>

\* Request.output
output(bucket, prefix, rename) ==
  /\ req = "created"
  /\ target' = [isNull |-> FALSE, bucket |-> bucket, prefix |-> prefix, rename |-> rename]
  /\ UNCHANGED <<store, pageSize, ctxs, req, lsVars, opts, destructive, runVars,
                 calls, failures>>

\* Request.rename
rename(key) ==
  LET newFileName == RenameFn(target.rename, Slice(key, Len(target.prefix)))
  IN  target.prefix \o newFileName

\* Request.resolveSources: reverse, then limit, then exclude
NotExcluded(obj) == ~ExcludeFn(opts.exclude, obj.key)

\* resolveSources without its exclude step
resolveSourcesUnfiltered(objs) ==
  LET reversed == IF opts.reverse THEN Reverse(objs) ELSE objs
  IN  IF opts.limit # 0 THEN Take(reversed, opts.limit) ELSE reversed

resolveSources(objs) ==
  LET reversed == IF opts.reverse THEN Reverse(objs) ELSE objs
      limited == IF opts.limit # 0 THEN Take(reversed, opts.limit) ELSE reversed
  IN  IF opts.exclude # "none" THEN SelectSeq(limited, NotExcluded) ELSE limited

\* S3.get: the value its promise fulfils with for a stored object
Decode(bytes, encoding) == IF encoding = "utf8" THEN Utf8Decode(bytes) ELSE bytes
\* S3.get where an encoding other than the default one is applied whether or not
\* there is a transformer
S3getEncodingWins(object, key, encoding, transformer) ==
  IF transformer = "none" \/ encoding # "utf8" THEN JStr(Decode(object.Body, encoding))
  ELSE TransformFn(transformer, object, key)

S3get(object, key, encoding, transformer) ==
  IF transformer = "none" THEN JStr(Decode(object.Body, encoding))
  ELSE TransformFn(transformer, object, key)

Call(op, key, from) == [op |-> op, key |-> key, from |-> from]

\* A Batch whose concurrency only each sets, and only when it is given one
BatchConcurrencyUnset(op, given) ==
  IF op = "each" /\ given # 0 THEN given ELSE Infinity

\* The concurrency a Batch runs with: new Batch() is Infinity until .concurrency(n)
BatchConcurrency(op, given) ==
  CASE op = "each" -> IF given # 0 THEN given ELSE opts.concurrency
    [] op = "map" -> opts.concurrency
    [] op = "reduce" -> opts.concurrency
    [] OTHER -> Infinity

\* map and filter without their guard
GuardAbsent == FALSE

\* map's and filter's guard
Guard == target.isNull /\ destructive # TRUE

\* A terminal call: its Batch is made, and its promise returned.  map and filter
\* throw before that without target() or inplace().
Terminal(op, entry, func, isAsync, given, initialValue) ==
  /\ req = "created"
  /\ IF op \in {"map", "filter"} /\ Guard
     THEN /\ call' = [NoCall EXCEPT !.op = op, !.entry = entry, !.func = func,
                                     !.nth = call.nth + 1]
          /\ promise' = [state |-> "threw", value |-> JErr("must use target() or inplace()")]
     ELSE /\ call' = [op |-> op, entry |-> entry, func |-> func,
                      isAsync |-> (isAsync \/ opts.async),
                      n |-> BatchConcurrency(op, given), initialValue |-> initialValue,
                      conf |-> [opts |-> opts, target |-> target],
                      prev |-> sources, nth |-> call.nth + 1]
          /\ promise' = [state |-> "pending", value |-> JUndefined]
  \* the call has a Batch and closure variables of its own
  /\ sources' = <<>>
  /\ batch' = NoBatch
  /\ task' = <<>>
  /\ accumulator' = JNull
  /\ accArg' = <<>>
  /\ result' = <<>>
  /\ out' = <<>>
  /\ invoked' = <<>>
  /\ UNCHANGED <<store, pageSize, ctxs, req, lsVars, cfgVars, calls, failures>>

\* Request.each(func, isAsync, concurrency); 0 is the concurrency left out
each(isAsync, given) == Terminal("each", "each", "func", isAsync, given, JNull)

\* forEach setting the Request's concurrency to 1 before it calls each
forEachOverwrites(isasync) ==
  /\ req = "created"
  /\ opts' = [opts EXCEPT !.concurrency = 1]
  /\ call' = [op |-> "each", entry |-> "forEach", func |-> "func",
              isAsync |-> (isasync \/ opts.async), n |-> 1, initialValue |-> JNull,
              conf |-> [opts |-> opts', target |-> target],
              prev |-> sources, nth |-> call.nth + 1]
  /\ promise' = [state |-> "pending", value |-> JUndefined]
  /\ sources' = <<>>
  /\ batch' = NoBatch
  /\ task' = <<>>
  /\ accumulator' = JNull
  /\ accArg' = <<>>
  /\ result' = <<>>
  /\ out' = <<>>
  /\ invoked' = <<>>
  /\ UNCHANGED <<store, pageSize, ctxs, req, lsVars, target, destructive, calls, failures>>

\* forEach leaving the concurrency to the Request's options
forEachConfigured(isasync) == Terminal("each", "forEach", "func", isasync, 0, JNull)

\* Request.forEach
forEach(isasync) == Terminal("each", "forEach", "func", isasync, 1, JNull)

\* Request.map
map(func, isAsync) == Terminal("map", "map", func, isAsync, 0, JNull)

\* Request.reduce: initialValue = initialValue || null
reduce(initialValue, isAsync) ==
  Terminal("reduce", "reduce", "func", isAsync, 0, Or(initialValue, JNull))

\* Request.filter
filter(isAsync) == Terminal("filter", "filter", "func", isAsync, 0, JNull)

\* What the terminal call's promise fulfils with: reduce's accumulator, else lastKey
FulfilValue(acc) ==
  IF call.op = "reduce" THEN acc
  ELSE IF Len(sources) = 0 THEN JUndefined ELSE JObj(sources[Len(sources)])

\* The then-handler of resolveSources in a terminal call: one function is pushed on
\* the batch per source and the batch is ended, which starts the first n of them
\* (each starts with s3.get); an empty batch calls back at once.
Begin ==
  /\ call.op # "none"
  /\ promise.state = "pending"
  /\ ~batch.begun
  /\ objects.state = "resolved"
  /\ LET srcs == resolveSources(objects.value)
         n == Len(srcs)
         first == Min(call.n, n)
     IN  /\ sources' = srcs
         \* Array.prototype.reverse reverses getObjects' array in place
         /\ objects' = [objects EXCEPT !.value = IF opts.reverse THEN Reverse(@) ELSE @]
         /\ accumulator' = call.initialValue
         /\ batch' = [begun |-> TRUE, index |-> first, pending |-> n, done |-> FALSE,
                      encoding |-> opts.encoding, transformer |-> opts.transformer]
         /\ task' = [i \in 1..n |-> IF i <= first THEN "get" ELSE "idle"]
         /\ accArg' = [i \in 1..n |-> JUndefined]
         /\ result' = [i \in 1..n |-> JUndefined]
         /\ out' = [i \in 1..n |-> NoOut]
         /\ invoked' = [i \in 1..n |-> 0]
         /\ calls' = calls \cup {Call("get", srcs[i].key, <<>>) : i \in 1..first}
         /\ promise' = IF n = 0
                       THEN [state |-> "fulfilled",
                             value |-> IF call.op = "reduce" THEN call.initialValue
                                       ELSE JUndefined]
                       ELSE promise
  /\ UNCHANGED <<store, pageSize, ctxs, req, lsPc, lsMarker, lsAll, lsCalls, ctxRes,
                 fBatch, cfgVars, call, failures>>

\* resolveSources rejects with findObjects' error: .catch(fail)
BeginFail ==
  /\ call.op # "none"
  /\ promise.state = "pending"
  /\ ~batch.begun
  /\ objects.state = "rejected"
  /\ promise' = [state |-> "rejected", value |-> objects.error]
  /\ UNCHANGED <<store, pageSize, ctxs, req, lsVars, cfgVars, call, sources, batch,
                 task, accumulator, accArg, result, out, invoked, calls, failures>>

\* ------------------------------------------------------- Batch (npm batch)
\* next starting the function after the next one while there is one
nextSkipsAhead(settled, index) ==
  IF index + 1 <= Len(sources)
  THEN /\ task' = [settled EXCEPT ![index + 1] = "get"]
       /\ calls' = calls \cup {Call("get", sources[index + 1].key, <<>>)}
  ELSE IF index <= Len(sources)
  THEN /\ task' = [settled EXCEPT ![index] = "get"]
       /\ calls' = calls \cup {Call("get", sources[index].key, <<>>)}
  ELSE /\ task' = settled
       /\ UNCHANGED calls

\* Batch.end's next(): the next function pushed, if any, is started
next(settled, index) ==
  IF index <= Len(sources)
  THEN /\ task' = [settled EXCEPT ![index] = "get"]
       /\ calls' = calls \cup {Call("get", sources[index].key, <<>>)}
  ELSE /\ task' = settled
       /\ UNCHANGED calls

\* done calling the batch's callback when one function is still to call done
doneFulfilsEarly(i, err, acc) ==
  LET settled == [task EXCEPT ![i] = "settled"]
      pending == batch.pending - 1
  IN  IF batch.done
      THEN /\ task' = settled
           /\ UNCHANGED <<batch, promise, calls>>
      ELSE IF ~Falsy(err)
      THEN /\ batch' = [batch EXCEPT !.done = TRUE]
           /\ promise' = [state |-> "rejected", value |-> err]
           /\ task' = settled
           /\ UNCHANGED calls
      ELSE IF pending > 1
      THEN /\ batch' = [batch EXCEPT !.pending = pending, !.index = @ + 1]
           /\ next(settled, batch.index + 1)
           /\ UNCHANGED promise
      ELSE /\ batch' = [batch EXCEPT !.pending = pending, !.done = TRUE]
           /\ promise' = [state |-> "fulfilled", value |-> FulfilValue(acc)]
           /\ task' = settled
           /\ UNCHANGED calls

\* done where a later error replaces the one the promise was rejected with
doneLastError(i, err, acc) ==
  LET settled == [task EXCEPT ![i] = "settled"]
      pending == batch.pending - 1
  IN  IF ~Falsy(err)
      THEN /\ batch' = [batch EXCEPT !.done = TRUE]
           /\ promise' = [state |-> "rejected", value |-> err]
           /\ task' = settled
           /\ UNCHANGED calls
      ELSE IF batch.done
      THEN /\ task' = settled
           /\ UNCHANGED <<batch, promise, calls>>
      ELSE IF pending # 0
      THEN /\ batch' = [batch EXCEPT !.pending = pending, !.index = @ + 1]
           /\ next(settled, batch.index + 1)
           /\ UNCHANGED promise
      ELSE /\ batch' = [batch EXCEPT !.pending = 0]
           /\ promise' = [state |-> "fulfilled", value |-> FulfilValue(acc)]
           /\ task' = settled
           /\ UNCHANGED calls

\* done that goes on to the next function after an error
doneStartsNext(i, err, acc) ==
  LET settled == [task EXCEPT ![i] = "settled"]
      pending == batch.pending - 1
  IN  IF batch.done
      THEN /\ task' = settled
           /\ UNCHANGED <<batch, promise, calls>>
      ELSE IF ~Falsy(err)
      THEN /\ batch' = [batch EXCEPT !.done = TRUE, !.index = @ + 1]
           /\ promise' = [state |-> "rejected", value |-> err]
           /\ next(settled, batch.index + 1)
      ELSE IF pending # 0
      THEN /\ batch' = [batch EXCEPT !.pending = pending, !.index = @ + 1]
           /\ next(settled, batch.index + 1)
           /\ UNCHANGED promise
      ELSE /\ batch' = [batch EXCEPT !.pending = 0]
           /\ promise' = [state |-> "fulfilled", value |-> FulfilValue(acc)]
           /\ task' = settled
           /\ UNCHANGED calls

\* The callback Batch hands the function of source i, done(err): after an error
\* nothing more is counted or started; the first error ends the batch; otherwise
\* the next function is started, or the batch ends when none is pending.  The
\* terminal call's batch.end callback settles its promise.
done(i, err, acc) ==
  LET settled == [task EXCEPT ![i] = "settled"]
      pending == batch.pending - 1
  IN  IF batch.done
      THEN /\ task' = settled
           /\ UNCHANGED <<batch, promise, calls>>
      ELSE IF ~Falsy(err)
      THEN /\ batch' = [batch EXCEPT !.done = TRUE]
           /\ promise' = [state |-> "rejected", value |-> err]
           /\ task' = settled
           /\ UNCHANGED calls
      ELSE IF pending # 0
      THEN /\ batch' = [batch EXCEPT !.pending = pending, !.index = @ + 1]
           /\ next(settled, batch.index + 1)
           /\ UNCHANGED promise
      ELSE /\ batch' = [batch EXCEPT !.pending = 0]
           /\ promise' = [state |-> "fulfilled", value |-> FulfilValue(acc)]
           /\ task' = settled
           /\ UNCHANGED calls

\* ----------------------------------------- the function pushed per source
\* A store call is issued for source i and awaited
Issue(i, op, key, from, body) ==
  /\ out' = [out EXCEPT ![i] = [op |-> op, key |-> key, from |-> from, body |-> body]]
  /\ task' = [task EXCEPT ![i] = "out"]
  /\ calls' = calls \cup {Call(op, key, from)}
  /\ UNCHANGED <<batch, promise>>

\* The target key without the source's prefix taken off
OutputKeyUnstripped(source) ==
  LET outputKey == target.prefix \o source.key
  IN  IF target.rename # "none" THEN rename(outputKey) ELSE outputKey

\* The key map and filter write to under a target
OutputKey(source) ==
  LET outputKey == Replace(source.key, source.prefix, target.prefix)
  IN  IF target.rename # "none" THEN rename(outputKey) ELSE outputKey

\* mapOutput that takes the target for set
mapOutputAlwaysTarget(i, body) ==
  IF IsNullish(body)
  THEN /\ done(i, JErr("mapper function must return a value"), accumulator)
       /\ UNCHANGED out
  ELSE Issue(i, "put", OutputKey(sources[i]), <<>>, body)

\* mapOutput that takes the target for unset
mapOutputAlwaysInPlace(i, body) ==
  IF IsNullish(body)
  THEN /\ done(i, JErr("mapper function must return a value"), accumulator)
       /\ UNCHANGED out
  ELSE Issue(i, "put", sources[i].key, <<>>, body)

\* mapOutput without its test of the body
mapOutputUnchecked(i, body) ==
  IF target.isNull
  THEN Issue(i, "put", sources[i].key, <<>>, body)
  ELSE Issue(i, "put", OutputKey(sources[i]), <<>>, body)

\* map's mapOutput
mapOutput(i, body) ==
  IF IsNullish(body)
  THEN /\ done(i, JErr("mapper function must return a value"), accumulator)
       /\ UNCHANGED out
  ELSE IF target.isNull
  THEN Issue(i, "put", sources[i].key, <<>>, body)
  ELSE Issue(i, "put", OutputKey(sources[i]), <<>>, body)

\* filter's keep
keep(i) ==
  IF target.isNull
  THEN /\ done(i, JUndefined, accumulator)
       /\ UNCHANGED out
  ELSE Issue(i, "copy", OutputKey(sources[i]), sources[i].key, JNull)

\* remove deleting the source whenever inplace was called, target or not
removeWhenDestructive(i) ==
  IF target.isNull \/ destructive = TRUE
  THEN Issue(i, "delete", sources[i].key, <<>>, JNull)
  ELSE /\ done(i, JUndefined, accumulator)
       /\ UNCHANGED out

\* remove that issues no delete
removeKeeps(i) ==
  /\ done(i, JUndefined, accumulator)
  /\ UNCHANGED out

\* filter's remove
remove(i) ==
  IF target.isNull
  THEN Issue(i, "delete", sources[i].key, <<>>, JNull)
  ELSE /\ done(i, JUndefined, accumulator)
       /\ UNCHANGED out

\* filter without its check of the result
checkAbsent(r) == TRUE

\* filter's check: passes a boolean, throws a TypeError on anything else
check(r) == r.t = "boolean"

\* What the pushed function does with what the user's function produced: o.kind is
\* "value" (returned, or its promise fulfilled with o.value) or "throw" (thrown,
\* or its promise rejected)
AfterFunc(i, o) ==
  /\ result' = [result EXCEPT ![i] = o.value]
  /\ IF o.kind = "throw"
     THEN /\ done(i, o.value, accumulator)
          /\ UNCHANGED <<out, accumulator>>
     ELSE CASE call.op = "each" ->
                 \* func(body, key).then(done) hands done the value; sync: done()
                 /\ done(i, IF call.isAsync THEN o.value ELSE JUndefined, accumulator)
                 /\ UNCHANGED <<out, accumulator>>
            [] call.op = "map" ->
                 /\ mapOutput(i, o.value)
                 /\ UNCHANGED accumulator
            [] call.op = "reduce" ->
                 /\ accumulator' = o.value
                 /\ done(i, JUndefined, o.value)
                 /\ UNCHANGED out
            [] OTHER ->
                 \* filter: check(result), then keep or remove
                 /\ IF ~check(o.value)
                    THEN /\ done(i, JErr("filter function must return a boolean"), accumulator)
                         /\ UNCHANGED out
                    ELSE IF ~Falsy(o.value) THEN keep(i) ELSE remove(i)
                 /\ UNCHANGED accumulator

\* What the user's function may produce for source i: its value on the arguments
\* it got (normal), a boolean of its choice in filter, and within the failure
\* budget an exception or a value the operation refuses
Value(v) == [kind |-> "value", value |-> v]
Throw(e) == [kind |-> "throw", value |-> JErr(e)]
Good(normal) ==
  CASE call.op = "filter" -> {Value(JBool(TRUE)), Value(JBool(FALSE))}
    [] call.op = "each" /\ call.isAsync -> {Value(JUndefined), Value(JBool(TRUE))}
    [] OTHER -> {Value(normal)}
Bad ==
  CASE call.op = "filter" -> {Throw("FuncError"), Value(JUndefined), Value(JStr(<<1>>))}
    [] call.op = "map" -> {Throw("FuncError"), Value(JNull), Value(JUndefined)}
    [] OTHER -> {Throw("FuncError")}

Outcome(i, normal) ==
  \/ /\ \E o \in Good(normal) : AfterFunc(i, o)
     /\ UNCHANGED failures
  \/ /\ failures < MaxFailures
     /\ failures' = failures + 1
     /\ \E o \in Bad : AfterFunc(i, o)

\* The value the user's function produces on (body, key) when it returns normally
Normal(body, key) ==
  CASE call.op = "map" -> MapFn(call.func, body, key)
    [] call.op = "reduce" -> ReduceFn(accumulator, body, key)
    [] OTHER -> JUndefined

Tasks == 1..Len(sources)

\* s3.get fulfilling where a reduce whose accumulator is null takes the body for
\* its accumulator and does not call the reducer
getOkSeeding(i) ==
  /\ batch.begun
  /\ task[i] = "get"
  /\ Exists(store, sources[i].key)
  /\ LET key == sources[i].key
         body == S3get(store[key], key, batch.encoding, batch.transformer)
     IN  IF call.op = "reduce" /\ accumulator = JNull
         THEN /\ accumulator' = body
              /\ done(i, JUndefined, body)
              /\ UNCHANGED <<invoked, accArg, result, out, failures>>
         ELSE /\ invoked' = [invoked EXCEPT ![i] = @ + 1]
              /\ accArg' = [accArg EXCEPT ![i] = IF call.op = "reduce" THEN accumulator ELSE @]
              /\ IF call.isAsync
                 THEN /\ task' = [task EXCEPT ![i] = "cb"]
                      /\ result' = [result EXCEPT ![i] = Normal(body, key)]
                      /\ UNCHANGED <<batch, promise, calls, out, accumulator, failures>>
                 ELSE Outcome(i, Normal(body, key))
  /\ UNCHANGED <<store, pageSize, ctxs, req, lsVars, cfgVars, call, sources>>

\* s3.get's promise fulfils for source i and its then-handler calls the user's
\* function: a synchronous one is finished here, an asynchronous one is awaited
getOk(i) ==
  /\ batch.begun
  /\ task[i] = "get"
  /\ Exists(store, sources[i].key)
  /\ LET key == sources[i].key
         body == S3get(store[key], key, batch.encoding, batch.transformer)
     IN  /\ invoked' = [invoked EXCEPT ![i] = @ + 1]
         /\ accArg' = [accArg EXCEPT ![i] = IF call.op = "reduce" THEN accumulator ELSE @]
         /\ IF call.isAsync
            THEN /\ task' = [task EXCEPT ![i] = "cb"]
                 /\ result' = [result EXCEPT ![i] = Normal(body, key)]
                 /\ UNCHANGED <<batch, promise, calls, out, accumulator, failures>>
            ELSE Outcome(i, Normal(body, key))
  /\ UNCHANGED <<store, pageSize, ctxs, req, lsVars, cfgVars, call, sources>>

\* s3.get's promise rejecting with .catch(() => done()): the error is dropped
getFailSwallowed(i) ==
  /\ batch.begun
  /\ task[i] = "get"
  /\ \/ /\ ~Exists(store, sources[i].key)
        /\ UNCHANGED failures
     \/ /\ failures < MaxFailures
        /\ failures' = failures + 1
  /\ done(i, JUndefined, accumulator)
  /\ UNCHANGED <<store, pageSize, ctxs, req, lsVars, cfgVars, call, sources,
                 accumulator, accArg, result, out, invoked>>

\* s3.get's promise rejects for source i (the object is gone, or the store or the
\* transformer fails): .catch(done)
getFail(i) ==
  /\ batch.begun
  /\ task[i] = "get"
  /\ \/ /\ ~Exists(store, sources[i].key)
        /\ UNCHANGED failures
     \/ /\ failures < MaxFailures
        /\ failures' = failures + 1
  /\ done(i, JErr("GetError"), accumulator)
  /\ UNCHANGED <<store, pageSize, ctxs, req, lsVars, cfgVars, call, sources,
                 accumulator, accArg, result, out, invoked>>

\* The promise of the asynchronous user function of source i settles
funcSettle(i) ==
  /\ batch.begun
  /\ task[i] = "cb"
  /\ Outcome(i, result[i])
  /\ UNCHANGED <<store, pageSize, ctxs, req, lsVars, cfgVars, call, sources,
                 accArg, invoked>>

\* S3.put, S3.copy, S3.delete: what the store does when the call succeeds
Apply(st, o) ==
  CASE o.op = "put" -> StorePut(st, o.key, [Body |-> Utf8Encode(o.body.v)])
    [] o.op = "copy" -> StorePut(st, o.key, st[o.from])
    [] OTHER -> StoreDelete(st, o.key)

\* The put, copy or delete of source i succeeds: done()
outOk(i) ==
  /\ batch.begun
  /\ task[i] = "out"
  /\ out[i].op = "copy" => Exists(store, out[i].from)
  /\ store' = Apply(store, out[i])
  /\ done(i, JUndefined, accumulator)
  /\ UNCHANGED <<pageSize, ctxs, req, lsVars, cfgVars, call, sources, accumulator,
                 accArg, result, out, invoked, failures>>

\* The put, copy or delete of source i fails: done(e)
outFail(i) ==
  /\ batch.begun
  /\ task[i] = "out"
  /\ \/ /\ out[i].op = "copy" /\ ~Exists(store, out[i].from)
        /\ UNCHANGED failures
     \/ /\ failures < MaxFailures
        /\ failures' = failures + 1
  /\ done(i, JErr("StoreError"), accumulator)
  /\ UNCHANGED <<store, pageSize, ctxs, req, lsVars, cfgVars, call, sources,
                 accumulator, accArg, result, out, invoked>>

\* ---------------------------------------------------------- specifications
SrcPrefix == <<1>>
TgtPrefix == <<2>>
OtherKey == <<3, 1>>
SrcKey(i) == SrcPrefix \o <<i>>
SrcKeys == {SrcKey(i) : i \in 1..NumObjects}
\* The last object's content ends in a byte that is no UTF-8 text
SrcBody(k) == IF k[Len(k)] = NumObjects THEN <<40 + k[Len(k)], 200>> ELSE <<40 + k[Len(k)]>>

NewContext(prefix, marker, endPrefix) ==
  [bucket |-> "b", prefix |-> prefix, marker |-> marker, endPrefix |-> endPrefix,
   reverse |-> FALSE, limit |-> 0]

\* The state before S3Lambda.context, but for the store, its page size and the contexts
InitRequest ==
  /\ req = "new"
  /\ lsPc = [c \in Contexts |-> "idle"]
  /\ lsMarker = [c \in Contexts |-> <<>>]
  /\ lsAll = [c \in Contexts |-> <<>>]
  /\ lsCalls = [c \in Contexts |-> <<>>]
  /\ ctxRes = [c \in Contexts |-> <<>>]
  /\ fBatch = [pending |-> Len(ctxs), done |-> FALSE]
  /\ objects = [state |-> "pending", value |-> <<>>, error |-> JNull]
  /\ opts = DefaultOpts
  /\ target = NoTarget
  /\ destructive = FALSE
  /\ call = NoCall
  /\ promise = [state |-> "none", value |-> JUndefined]
  /\ sources = <<>>
  /\ batch = NoBatch
  /\ task = <<>>
  /\ accumulator = JNull
  /\ accArg = <<>>
  /\ result = <<>>
  /\ out = <<>>
  /\ invoked = <<>>
  /\ calls = {}
  /\ failures = 0

\* The store of the batch requests: NumObjects objects under the prefix, one elsewhere
InitialStore == [k \in SrcKeys \cup {OtherKey} |-> [Body |-> SrcBody(k)]]

\* Batch requests: one context over the objects under the prefix
Init ==
  /\ store = InitialStore
  /\ pageSize = BatchPageSize
  /\ ctxs = <<NewContext(SrcPrefix, <<>>, <<>>)>>
  /\ InitRequest

\* The modifiers are chained before the terminal call, and one terminal call is made
Chaining == req = "created" /\ call.op = "none"

Next ==
  \/ Context
  \/ \E c \in Contexts : ListRespond(c)
  \/ \E c \in Contexts : ListFail(c)
  \/ Chaining /\ \E c \in 1..MaxConc : concurrency(c)
  \/ Chaining /\ inplace
  \/ Chaining /\ \E r \in {"none", "suffix"} : output("b", TgtPrefix, r)
  \/ Chaining /\ \E a \in BOOLEAN : each(a, 0)
  \/ Chaining /\ \E a \in BOOLEAN : forEach(a)
  \/ Chaining /\ \E f \in {"addSmiley", "identity"}, a \in BOOLEAN : map(f, a)
  \/ Chaining /\ \E a \in BOOLEAN : reduce(JNull, a)
  \/ Chaining /\ \E a \in BOOLEAN : filter(a)
  \/ Begin
  \/ BeginFail
  \/ \E i \in Tasks : getOk(i)
  \/ \E i \in Tasks : getFail(i)
  \/ \E i \in Tasks : funcSettle(i)
  \/ \E i \in Tasks : outOk(i)
  \/ \E i \in Tasks : outFail(i)

Spec == Init /\ [][Next]_vars

\* Key listing: any store over KeyUniverse, any page size, one context.  The
\* objects with a key of one character are empty: the placeholder a store keeps
\* for a directory, whose key is the prefix of the keys under it.
KeyUniverse == {<<a>> : a \in 1..2} \cup {<<a, b>> : a \in 1..2, b \in 1..2}

InitKeys ==
  /\ \E S \in SUBSET KeyUniverse :
       store = [k \in S |-> [Body |-> IF Len(k) = 1 THEN <<>> ELSE k]]
  /\ pageSize \in 1..MaxPage
  /\ \E p \in {<<>>, <<1>>}, m \in {<<>>, <<1>>, <<1, 1>>}, e \in {<<>>, <<2>>, <<1, 2>>} :
       ctxs = <<NewContext(p, m, e)>>
  /\ InitRequest

NextKeys ==
  \/ Context
  \/ \E c \in Contexts : ListRespond(c)
  \/ \E c \in Contexts : ListFail(c)

SpecKeys == InitKeys /\ [][NextKeys]_vars

\* Several contexts: any store over KeyUniverse, any page size, a context for the
\* keys under 2 and then one for the keys under 1, each after any marker
InitContexts ==
  /\ \E S \in SUBSET KeyUniverse : store = [k \in S |-> [Body |-> k]]
  /\ pageSize \in 1..MaxPage
  /\ \E m \in {<<>>, <<1>>}, n \in {<<>>, <<2>>} :
       ctxs = <<NewContext(<<2>>, n, <<>>), NewContext(<<1>>, m, <<>>)>>
  /\ InitRequest

NextContexts ==
  \/ Context
  \/ \E c \in Contexts : ListRespond(c)
  \/ \E c \in Contexts : ListFail(c)

SpecContexts == InitContexts /\ [][NextContexts]_vars

\* Key resolution under a terminal call: a context over the object elsewhere, then
\* one over the objects under the prefix, and each.  A settled promise's handlers
\* are run by the job queue, so BeginFail is taken once it is enabled.
InitResolve ==
  /\ store = InitialStore
  /\ pageSize = BatchPageSize
  /\ ctxs = <<NewContext(Take(OtherKey, 1), <<>>, <<>>), NewContext(SrcPrefix, <<>>, <<>>)>>
  /\ InitRequest

NextResolve ==
  \/ Context
  \/ \E c \in Contexts : ListRespond(c)
  \/ \E c \in Contexts : ListFail(c)
  \/ Chaining /\ \E a \in BOOLEAN : each(a, 0)
  \/ Begin
  \/ BeginFail
  \/ \E i \in Tasks : getOk(i)
  \/ \E i \in Tasks : getFail(i)
  \/ \E i \in Tasks : funcSettle(i)

SpecResolve == InitResolve /\ [][NextResolve]_vars /\ WF_vars(BeginFail)

\* A terminal call made after the one before it has fulfilled
Again == req = "created" /\ call.op # "none" /\ promise.state = "fulfilled"
         /\ call.nth < MaxCalls

\* The modifiers of the sources: exclude, limit and reverse are chained, then each
\* is called, and called again when it has fulfilled
NextSources ==
  \/ Context
  \/ \E c \in Contexts : ListRespond(c)
  \/ Chaining /\ exclude("odd")
  \/ Chaining /\ \E l \in 1..NumObjects : limit(l)
  \/ Chaining /\ reverse
  \/ Chaining /\ each(FALSE, 0)
  \/ Again /\ each(FALSE, 0)
  \/ Begin
  \/ \E i \in Tasks : getOk(i)

SpecSources == Init /\ [][NextSources]_vars

\* A modifier called on the Request while the promise of its terminal call is pending
Running == req = "created" /\ call.op # "none" /\ promise.state = "pending"

\* Modifiers called late: inplace is chained and map is called, and output, exclude
\* and limit are called on the Request while map's promise is pending
NextLate ==
  \/ Context
  \/ \E c \in Contexts : ListRespond(c)
  \/ Chaining /\ inplace
  \/ Chaining /\ map("identity", FALSE)
  \/ Running /\ output("b", TgtPrefix, "none")
  \/ Running /\ exclude("odd")
  \/ Running /\ \E l \in 1..NumObjects : limit(l)
  \/ Begin
  \/ \E i \in Tasks : getOk(i)
  \/ \E i \in Tasks : outOk(i)

SpecLate == Init /\ [][NextLate]_vars

\* A terminal call after forEach: a concurrency is chained, forEach is called and,
\* when it has fulfilled, each or map is called on the Request
NextAgain ==
  \/ Context
  \/ \E c \in Contexts : ListRespond(c)
  \/ Chaining /\ \E c \in 1..MaxConc : concurrency(c)
  \/ Chaining /\ inplace
  \/ Chaining /\ forEach(FALSE)
  \/ Again /\ each(FALSE, 0)
  \/ Again /\ map("identity", FALSE)
  \/ Begin
  \/ \E i \in Tasks : getOk(i)
  \/ \E i \in Tasks : outOk(i)

SpecAgain == Init /\ [][NextAgain]_vars

\* Decoding: an encoding and a transformer are chained, and map is called with the
\* identity and a target
NextDecode ==
  \/ Context
  \/ \E c \in Contexts : ListRespond(c)
  \/ Chaining /\ encode("latin1")
  \/ Chaining /\ transform("reverse")
  \/ Chaining /\ output("b", TgtPrefix, "none")
  \/ Chaining /\ map("identity", FALSE)
  \/ Begin
  \/ \E i \in Tasks : getOk(i)
  \/ \E i \in Tasks : outOk(i)

SpecDecode == Init /\ [][NextDecode]_vars

\* Initial values: reduce is called with an empty string, with false or with a
\* string that is not empty
InitialValues == {JStr(<<>>), JBool(FALSE), JStr(<<7>>)}

NextReduce ==
  \/ Context
  \/ \E c \in Contexts : ListRespond(c)
  \/ Chaining /\ \E v \in InitialValues, a \in BOOLEAN : reduce(v, a)
  \/ Begin
  \/ \E i \in Tasks : getOk(i)
  \/ \E i \in Tasks : funcSettle(i)

SpecReduce == Init /\ [][NextReduce]_vars

\* Settling: each over the objects under the prefix or over a prefix no object
\* is under.  Every listObjects and getObject call is answered and every
\* callback queued is run, so a step is taken while one is enabled.
InitSettle ==
  /\ store \in {InitialStore, [k \in {OtherKey} |-> [Body |-> SrcBody(k)]]}
  /\ pageSize = BatchPageSize
  /\ ctxs = <<NewContext(SrcPrefix, <<>>, <<>>)>>
  /\ InitRequest

NextSettle ==
  \/ Context
  \/ \E c \in Contexts : ListRespond(c)
  \/ Chaining /\ \E a \in BOOLEAN : each(a, 0)
  \/ Begin
  \/ \E i \in Tasks : getOk(i)
  \/ \E i \in Tasks : getFail(i)
  \/ \E i \in Tasks : funcSettle(i)

SpecSettle == InitSettle /\ [][NextSettle]_vars /\ WF_vars(NextSettle)

\* ------------------------------------------------------------------ claims
\* The sources whose pushed function has been started and has not called done
InFlight == {i \in DOMAIN task : task[i] \in {"get", "cb", "out"}}

\* The sources whose user function has produced its result
Evaluated == {i \in DOMAIN task : task[i] \in {"out", "settled"}}

\* The keys context c is to list: those with its prefix after its marker
Listed(c) == {k \in DOMAIN store : IsPrefixOf(ctxs[c].prefix, k) /\ LexLess(ctxs[c].marker, k)}

KeysOf(objs) == [i \in 1..Len(objs) |-> objs[i].key]

StrictlyIncreasing(ks) == \A i, j \in 1..Len(ks) : i < j => LexLess(ks[i], ks[j])

SourceKeys == {sources[i].key : i \in 1..Len(sources)}

\* C1: a context without endPrefix that lists N >= 1 keys resolves, for every page
\* size, to exactly those keys, each once, in key order; the listing makes
\* ceil(N / pageSize) calls, the first with the context's marker and every later
\* one with the last key of the page before it.
C1_PaginationComplete ==
  \A c \in Contexts :
    (req = "created" /\ ctxs[c].endPrefix = <<>> /\ Listed(c) # {}) =>
      LET N == Cardinality(Listed(c))
      IN  /\ lsPc[c] # "crash"
          /\ lsCalls[c][1] = ctxs[c].marker
          /\ \A j \in 2..Len(lsCalls[c]) :
               /\ (j - 1) * pageSize <= Len(lsAll[c])
               /\ lsCalls[c][j] = lsAll[c][(j - 1) * pageSize]
          /\ StrictlyIncreasing(lsAll[c])
          /\ Range(lsAll[c]) \subseteq Listed(c)
          /\ lsPc[c] = "done" =>
               /\ objects.state = "resolved"
               /\ Range(KeysOf(objects.value)) = Listed(c)
               /\ Len(objects.value) = N
               /\ StrictlyIncreasing(KeysOf(objects.value))
               /\ Len(lsCalls[c]) = (N + pageSize - 1) \div pageSize

\* C1's case: a listing of at least three pages, begun after a marker, has resolved
C1_Witness ==
  \E c \in Contexts :
    /\ lsPc[c] = "done"
    /\ ctxs[c].endPrefix = <<>>
    /\ ctxs[c].marker # <<>>
    /\ pageSize > 1
    /\ Len(lsCalls[c]) >= 3
    /\ Len(objects.value) = Cardinality(Listed(c))
    /\ Len(objects.value) > pageSize

\* C2: reduce runs one task at a time whatever concurrency is configured.
C2_ReduceSequential == call.op = "reduce" => Cardinality(InFlight) <= 1

\* C3: when nothing fails, reduce fulfils with the left fold of the reducer over
\* the values of the sources, in their order, from the initial value.
RECURSIVE LeftFold(_, _)
LeftFold(acc, i) ==
  IF i > Len(sources) THEN acc
  ELSE LeftFold(ReduceFn(acc,
                         S3get(InitialStore[sources[i].key], sources[i].key,
                               opts.encoding, opts.transformer),
                         sources[i].key),
                i + 1)

C3_ReduceLeftFold ==
  (call.op = "reduce" /\ promise.state = "fulfilled" /\ failures = 0) =>
    promise.value = LeftFold(call.initialValue, 1)

\* C4: forEach runs its tasks one at a time and in order, whatever concurrency is
\* configured: a task is started only when every source before it has had its
\* function called once and has called done.
C4_ForEachSequential ==
  call.entry = "forEach" =>
    /\ Cardinality(InFlight) <= 1
    /\ \A i, j \in DOMAIN task :
         (i < j /\ task[j] # "idle") => (task[i] = "settled" /\ invoked[i] = 1)
    /\ \A i \in DOMAIN task : invoked[i] <= 1

\* C4's case: under a configured concurrency above 1, forEach has the second
\* source in flight after the first one's asynchronous function settled
C4_Witness ==
  /\ call.entry = "forEach"
  /\ call.isAsync
  /\ opts.concurrency > 1
  /\ Len(sources) >= 3
  /\ task[1] = "settled"
  /\ task[2] = "cb"
  /\ task[3] = "idle"

\* C5: each and map never have more tasks in flight than the configured concurrency.
C5_ConcurrencyCeiling ==
  call.entry \in {"each", "map"} => Cardinality(InFlight) <= opts.concurrency

\* C5's case: map under concurrency 2 has two tasks in flight, one of them
\* writing its output, after another task has finished
C5_Witness ==
  /\ call.entry = "map"
  /\ opts.concurrency = 2
  /\ Cardinality(InFlight) = 2
  /\ \E i \in DOMAIN task : task[i] = "settled"
  /\ \E i \in DOMAIN task : task[i] = "out"

\* C6: filter never has more tasks in flight than the configured concurrency.
C6_FilterCeiling ==
  call.op = "filter" => Cardinality(InFlight) <= opts.concurrency

C8_FilterInPlace ==
  (call.op = "filter" /\ target.isNull /\ promise.state = "fulfilled") =>
    /\ \A i \in 1..Len(sources) :
         /\ result[i].t = "boolean"
         /\ ~Falsy(result[i]) =>
              /\ Exists(store, sources[i].key)
              /\ store[sources[i].key] = InitialStore[sources[i].key]
         /\ Falsy(result[i]) => ~Exists(store, sources[i].key)
    /\ \A k \in DOMAIN InitialStore \ SourceKeys :
         Exists(store, k) /\ store[k] = InitialStore[k]
    /\ DOMAIN store \subseteq DOMAIN InitialStore

\* C8's case: a filter in place has fulfilled, having kept one source and refused another
C8_Witness ==
  /\ call.op = "filter"
  /\ target.isNull
  /\ promise.state = "fulfilled"
  /\ \E i, j \in 1..Len(sources) : ~Falsy(result[i]) /\ Falsy(result[j])
  /\ OtherKey \notin SourceKeys

\* The key a source is written to under the target: the target's prefix, then the
\* (renamed) rest of the key after the source's prefix
TargetKey(source) ==
  target.prefix \o RenameFn(target.rename, Slice(source.key, Len(source.prefix)))

\* C9: a filter with a target that fulfils has copied exactly the sources its
\* function kept, each to its target key; it never issues a put or a delete, and
\* every object the store held is as it was.
C9_FilterTarget ==
  (call.op = "filter" /\ ~target.isNull) =>
    /\ \A c \in calls : c.op \in {"get", "copy"}
    /\ \A k \in DOMAIN InitialStore : Exists(store, k) /\ store[k] = InitialStore[k]
    /\ promise.state = "fulfilled" =>
         /\ {c \in calls : c.op = "copy"} =
              {Call("copy", TargetKey(sources[i]), sources[i].key) :
                 i \in {j \in 1..Len(sources) : ~Falsy(result[j])}}
         /\ \A i \in 1..Len(sources) :
              IF ~Falsy(result[i])
              THEN /\ Exists(store, TargetKey(sources[i]))
                   /\ store[TargetKey(sources[i])] = InitialStore[sources[i].key]
              ELSE ~Exists(store, TargetKey(sources[i]))

\* C9's case: a filter with a target has fulfilled, having kept one source and
\* refused another
C9_Witness ==
  /\ call.op = "filter"
  /\ ~target.isNull
  /\ target.rename = "none"
  /\ promise.state = "fulfilled"
  /\ \E i, j \in 1..Len(sources) : ~Falsy(result[i]) /\ Falsy(result[j])

\* C10: filter issues no copy and no delete before its function has been
\* evaluated for every source.
C10_FilterTwoPass ==
  (call.op = "filter" /\ \E c \in calls : c.op \in {"copy", "delete"}) =>
    Evaluated = DOMAIN task

\* The terminal call's promise was rejected for a failed evaluation: a failed get,
\* a function that threw or rejected, or a result the operation refuses
EvaluationFailed ==
  /\ batch.begun
  /\ promise.state = "rejected"
  /\ promise.value # JErr("StoreError")

\* C11: a filter that fails for the evaluation of an item has issued no copy and no
\* delete, and the store is as it was.
C11_FailedFilterNoMutation ==
  (call.op = "filter" /\ EvaluationFailed) =>
    /\ store = InitialStore
    /\ \A c \in calls : c.op = "get"

\* The content map writes for a source: the mapper's value on the decoded content
\* the source had, as the bytes put stores
Mapped(source) ==
  [Body |-> Utf8Encode(MapFn(call.func,
                             S3get(InitialStore[source.key], source.key,
                                   opts.encoding, opts.transformer),
                             source.key).v)]

\* C12: a map in place that fulfils has put, for every source, the mapper's value
\* on its previous content under its own key; no other object was created, changed
\* or deleted.
C12_MapInPlace ==
  (call.op = "map" /\ target.isNull /\ promise.state = "fulfilled") =>
    /\ \A i \in 1..Len(sources) :
         /\ Exists(store, sources[i].key)
         /\ store[sources[i].key] = Mapped(sources[i])
    /\ DOMAIN store = DOMAIN InitialStore
    /\ \A k \in DOMAIN InitialStore \ SourceKeys : store[k] = InitialStore[k]
    /\ \A c \in calls : c.op \in {"get", "put"} /\ c.key \in SourceKeys

\* C12's case: an asynchronous map in place over three sources has fulfilled and
\* has changed the content of each
C12_Witness ==
  /\ call.op = "map"
  /\ call.func = "addSmiley"
  /\ call.isAsync
  /\ target.isNull
  /\ promise.state = "fulfilled"
  /\ Len(sources) >= 3
  /\ \A i \in 1..Len(sources) : store[sources[i].key] # InitialStore[sources[i].key]
  /\ store[OtherKey] = InitialStore[OtherKey]

IsUtf8Text(bytes) == \A i \in 1..Len(bytes) : bytes[i] < 128

WriteKey(i) == IF target.isNull THEN sources[i].key ELSE TargetKey(sources[i])

\* The user's function was called for source i, has returned or fulfilled, and
\* the pushed function has called done
Returned(i) == task[i] = "settled" /\ invoked[i] = 1 /\ result[i].t # "error"

\* C14: when the mapper returns null or undefined for a source, nothing is put for
\* that source and the map rejects with an error.
C14_MapNullResult ==
  call.op = "map" =>
    \A i \in DOMAIN task :
      (Returned(i) /\ IsNullish(result[i])) =>
        /\ promise.state = "rejected"
        /\ promise.value.t = "error"
        /\ out[i] = NoOut
        /\ Call("put", WriteKey(i), <<>>) \notin calls
        /\ IF target.isNull
           THEN store[sources[i].key] = InitialStore[sources[i].key]
           ELSE ~Exists(store, WriteKey(i))

\* C14's case: an asynchronous mapper fulfilled with undefined for one source after
\* the output of another was written; the map is rejected for it
C14_Witness ==
  /\ call.op = "map"
  /\ call.isAsync
  /\ promise = [state |-> "rejected", value |-> JErr("mapper function must return a value")]
  /\ \E i, j \in DOMAIN task :
       /\ Returned(i) /\ result[i] = JUndefined
       /\ Returned(j) /\ Exists(store, WriteKey(j)) /\ store[WriteKey(j)] = Mapped(sources[j])

\* C15: when the filter function yields something that is no boolean for a
\* source, the source is neither copied nor deleted and the filter rejects with an
\* error.
C15_FilterNonBoolean ==
  call.op = "filter" =>
    \A i \in DOMAIN task :
      (Returned(i) /\ result[i].t # "boolean") =>
        /\ promise.state = "rejected"
        /\ promise.value.t = "error"
        /\ out[i] = NoOut
        /\ \A c \in calls : c.op \in {"copy", "delete"} =>
             (c.key # WriteKey(i) /\ c.from # sources[i].key)
        /\ Exists(store, sources[i].key)
        /\ store[sources[i].key] = InitialStore[sources[i].key]
        /\ ~target.isNull => ~Exists(store, WriteKey(i))

\* C15's case: the filter function yielded a string, which is truthy, for a source
\* and the filter is rejected for it
C15_Witness ==
  /\ call.op = "filter"
  /\ promise = [state |-> "rejected", value |-> JErr("filter function must return a boolean")]
  /\ \E i \in DOMAIN task : Returned(i) /\ result[i] = JStr(<<1>>)

\* A step in which a task of the terminal call fails
FailureStep == batch.begun /\ failures' = failures + 1

\* The error of the task of source i when it fails in this step: of its get, of
\* its put, copy or delete, of its function, or of the operation on what the
\* function returned
StepError(i) ==
  CASE task[i] = "out" -> JErr("StoreError")
    [] task[i] = "get" /\ invoked'[i] = invoked[i] -> JErr("GetError")
    [] result'[i].t = "error" -> result'[i]
    [] call.op = "map" -> JErr("mapper function must return a value")
    [] OTHER -> JErr("filter function must return a boolean")

\* C16: when a task fails while the promise of the terminal call is pending, the
\* promise is rejected with that task's error; a promise that is rejected stays
\* rejected with the same error whatever fails or finishes later, and is never
\* fulfilled.
C16_FirstErrorRejects ==
  [][/\ (FailureStep /\ promise.state = "pending") =>
          \E i \in DOMAIN task :
            /\ task[i] # task'[i]
            /\ promise' = [state |-> "rejected", value |-> StepError(i)]
     /\ promise.state = "rejected" => promise' = promise
     /\ promise.state = "fulfilled" => ~FailureStep]_vars

\* C16's case: two tasks have failed, a put and a function; the promise is
\* rejected with the error of the put
C16_Witness ==
  /\ batch.begun
  /\ failures = 2
  /\ promise = [state |-> "rejected", value |-> JErr("StoreError")]
  /\ \E i \in DOMAIN task : task[i] = "settled" /\ result[i] = JErr("FuncError")

\* C17: from the step in which the batch sees a task fail, no function that was
\* not started is started: no get is issued and no user function is called for it.
C17_NoStartAfterFailure ==
  [][(batch.begun /\ batch'.done) =>
       /\ \A i \in DOMAIN task :
            task[i] = "idle" => (task'[i] = "idle" /\ invoked'[i] = 0)
       /\ {c \in calls' : c.op = "get"} = {c \in calls : c.op = "get"}]_vars

\* C17's case: under concurrency 2 a task failed, the other task then in flight
\* has finished, and the third source was never started
C17_Witness ==
  /\ batch.begun
  /\ batch.done
  /\ call.n = 2
  /\ InFlight = {}
  /\ \E i, j \in DOMAIN task :
       /\ task[i] = "idle" /\ invoked[i] = 0
       /\ Call("get", sources[i].key, <<>>) \notin calls
       /\ task[j] = "settled" /\ invoked[j] = 1 /\ result[j].t # "error"

\* C18: when the promise of the terminal call is rejected, no task is in flight.
C18_RejectAfterDrain ==
  (batch.begun /\ promise.state = "rejected") => InFlight = {}

\* key holds sub somewhere
Contains(key, sub) ==
  \E j \in 0..(Len(key) - Len(sub)) : SubSeq(key, j + 1, j + Len(sub)) = sub

\* The keys context c lists that hold its endPrefix, and those before all of them
EndKeys(c) == {k \in Listed(c) : Contains(k, ctxs[c].endPrefix)}
BeforeEnd(c) == {k \in Listed(c) : \A h \in EndKeys(c) : LexLess(k, h)}

\* The listObjects calls that reach the first key holding endPrefix, or the end
CallsToEnd(c) ==
  IF EndKeys(c) = {}
  THEN (Cardinality(Listed(c)) + pageSize - 1) \div pageSize
  ELSE (Cardinality(BeforeEnd(c)) \div pageSize) + 1

C20_ContextOrder ==
  (Len(ctxs) = 2 /\ objects.state = "resolved") =>
    LET n1 == Cardinality(Listed(1))
        n2 == Cardinality(Listed(2))
        ks == KeysOf(objects.value)
    IN  /\ Len(ks) = n1 + n2
        /\ Range(SubSeq(ks, 1, n1)) = Listed(1)
        /\ Range(SubSeq(ks, n1 + 1, n1 + n2)) = Listed(2)
        /\ StrictlyIncreasing(SubSeq(ks, 1, n1))
        /\ StrictlyIncreasing(SubSeq(ks, n1 + 1, n1 + n2))
        /\ \A i \in 1..Len(ks) :
             /\ objects.value[i].prefix = ctxs[IF i <= n1 THEN 1 ELSE 2].prefix
             /\ objects.value[i].bucket = ctxs[IF i <= n1 THEN 1 ELSE 2].bucket

\* C20's case: two contexts have resolved, the first after more listObjects calls
\* than the second, and the keys of the first come first though they sort last
C20_Witness ==
  /\ Len(ctxs) = 2
  /\ objects.state = "resolved"
  /\ Len(lsCalls[1]) > Len(lsCalls[2])
  /\ Cardinality(Listed(1)) >= 2
  /\ Cardinality(Listed(2)) >= 2
  /\ LexLess(objects.value[Len(objects.value)].key, objects.value[1].key)

\* C21: when listObjects fails for one of the contexts, on its first page or a
\* later one, key resolution fails as a whole with that error: no partial list is
\* used, no object is fetched, the user's function is never called, and a terminal
\* call made on the Request rejects with the listing's error.
ListFailed == \E c \in Contexts : lsPc[c] = "fail"
C21_ListFailureRejects ==
  /\ [](ListFailed =>
          /\ objects.state = "rejected"
          /\ objects.error = JErr("ListError")
          /\ objects.value = <<>>
          /\ ~batch.begun
          /\ sources = <<>>
          /\ calls = {}
          /\ invoked = <<>>
          /\ promise.state \in {"none", "pending", "rejected"}
          /\ (promise.state = "rejected" => promise.value = JErr("ListError")))
  /\ ((ListFailed /\ call.op # "none") ~> (promise.state = "rejected"))

\* The second context's listing has failed on its second page after the first
\* context's keys were listed, and each has rejected
C21_Witness ==
  /\ lsPc[1] = "done"
  /\ ctxRes[1] # <<>>
  /\ lsPc[2] = "fail"
  /\ Len(lsCalls[2]) = 2
  /\ call.op = "each"
  /\ promise = [state |-> "rejected", value |-> JErr("ListError")]

\* The keys the contexts listed, in listing order
ListedObjects == Flatten(ctxRes)

\* C22: the sources a terminal call iterates are the listed keys with the excluded
\* ones dropped first, then reversed when reverse is set, then cut to the first
\* limit entries; so with a limit of N they are min(N, number of keys not excluded).
ExcludedFirst(list) ==
  LET kept == IF opts.exclude # "none" THEN SelectSeq(list, NotExcluded) ELSE list
      reversed == IF opts.reverse THEN Reverse(kept) ELSE kept
  IN  IF opts.limit # 0 THEN Take(reversed, opts.limit) ELSE reversed
C22_ExcludeReverseLimit ==
  (batch.begun /\ call.nth = 1) => sources = ExcludedFirst(ListedObjects)

C26_SecondCallSameSources ==
  /\ (call.nth >= 1 /\ objects.state = "resolved") => objects.value = ListedObjects
  /\ (call.nth = 2 /\ batch.begun) => sources = call.prev

C25_EmptyListingResolves ==
  \A c \in Contexts :
    (Listed(c) = {} /\ lsPc[c] \notin {"idle", "wait", "fail"}) =>
      /\ lsPc[c] = "done"
      /\ objects = [state |-> "resolved", value |-> <<>>, error |-> JNull]

\* C29: the resolved keys never hold the directory placeholder, the empty object
\* whose key is the context's prefix itself.
Placeholder(c, key) == key = ctxs[c].prefix /\ Exists(store, key) /\ store[key].Body = <<>>
C29_PlaceholderFiltered ==
  \A c \in Contexts : \A i \in DOMAIN ctxRes[c] : ~Placeholder(c, ctxRes[c][i].key)

\* C27: output, exclude and limit called after the terminal call do not touch the
\* running operation: it iterates the sources its options gave when the call was
\* made, and writes where its target was when the call was made (in place, when
\* there was none).
ConfKept(obj) == ~ExcludeFn(call.conf.opts.exclude, obj.key)
ConfiguredSources(list) ==
  LET kept == SelectSeq(list, ConfKept)
      reversed == IF call.conf.opts.reverse THEN Reverse(kept) ELSE kept
  IN  IF call.conf.opts.limit # 0 THEN Take(reversed, call.conf.opts.limit) ELSE reversed
C27_LateModifierNoEffect ==
  /\ batch.begun => sources = ConfiguredSources(ListedObjects)
  /\ call.conf.target.isNull =>
       \A c \in calls : c.op = "put" =>
         \E i \in DOMAIN ListedObjects : c.key = ListedObjects[i].key

\* C28 as stated: no listObjects call is made for a Request before its first
\* terminal call.
C28_LazyListing ==
  call.op = "none" => \A c \in Contexts : lsCalls[c] = <<>>

\* C28 as amended: key resolution is eager.  context issues the first listObjects
\* call of every context, from the context's marker; a modifier or a terminal call
\* issues no listObjects call, and neither does any step of the terminal call's batch.
C28_EagerListing ==
  [][/\ (req = "new" /\ req' = "created") =>
          \A c \in Contexts : lsCalls'[c] = <<ctxs[c].marker>>
     /\ (cfgVars' # cfgVars \/ runVars' # runVars) => lsCalls' = lsCalls]_vars

\* The listing has resolved over its two pages with a modifier chained and no
\* terminal call made
C28_Witness ==
  /\ req = "created"
  /\ call.op = "none"
  /\ promise.state = "none"
  /\ opts.concurrency # Infinity
  /\ objects.state = "resolved"
  /\ Len(lsCalls[1]) = 2

\* C30: when the get of a source fails (the store's error, or the transformer
\* throwing), the user's function is not called for that source, and the terminal
\* call's promise is rejected in that step: with the get's error when it was
\* pending, and it stays rejected when an earlier failure had rejected it.
C30_FetchFailureRejects ==
  /\ [](\A i \in DOMAIN task :
          (task[i] = "settled" /\ invoked[i] = 0) => promise.state = "rejected")
  /\ [][\A i \in DOMAIN task :
          getFail(i) =>
            /\ invoked'[i] = 0
            /\ task'[i] = "settled"
            /\ promise'.state = "rejected"
            /\ (promise.state = "pending" => promise'.value = JErr("GetError"))]_vars

\* The get of a source has failed while the function was called for another, and
\* the promise is rejected with the get's error
C30_Witness ==
  /\ promise = [state |-> "rejected", value |-> JErr("GetError")]
  /\ \E i \in DOMAIN task : task[i] = "settled" /\ invoked[i] = 0
  /\ \E j \in DOMAIN task : invoked[j] = 1

\* C31: when each, map or filter fulfils, the user's function has been called
\* exactly once for every source and for nothing else, whatever the concurrency
\* and the order in which the tasks finished.
C31_CalledOncePerSource ==
  (call.op \in {"each", "map", "filter"} /\ promise.state = "fulfilled") =>
    /\ DOMAIN invoked = DOMAIN sources
    /\ \A i \in DOMAIN sources : invoked[i] = 1 /\ task[i] = "settled"
    /\ \A c \in calls : c.op = "get" => c.key \in SourceKeys

\* An asynchronous map under concurrency 2 has fulfilled over all the objects
C31_Witness ==
  /\ call.op = "map"
  /\ call.isAsync
  /\ call.n = 2
  /\ promise.state = "fulfilled"
  /\ Len(sources) = NumObjects
  /\ \A i \in DOMAIN sources : invoked[i] = 1

\* C32: each and forEach fulfil with the last of the sources, the final element of
\* the listed keys after exclude, then reverse, then limit.
C32_FulfilsWithLast ==
  (call.op = "each" /\ call.nth = 1 /\ promise.state = "fulfilled") =>
    LET expected == ExcludedFirst(ListedObjects)
    IN  expected # <<>> => promise.value = JObj(expected[Len(expected)])

\* C33: the tasks of each, map and filter are started in the order of the sources:
\* when the task of a source has been started, the task of every source before it
\* has been started, whatever the concurrency and the order of completions.
Started(i) == task[i] # "idle"
C33_StartedInOrder ==
  call.op \in {"each", "map", "filter"} =>
    \A i, j \in DOMAIN task : (i < j /\ Started(j)) => Started(i)

\* Under concurrency 1 the second source's task runs after the first has finished,
\* and the third has not been started
C33_Witness ==
  /\ call.op = "map"
  /\ call.n = 1
  /\ Len(sources) = NumObjects
  /\ task[1] = "settled"
  /\ task[2] \in {"get", "cb", "out"}
  /\ task[NumObjects] = "idle"

\* C34: forEach leaves the Request's concurrency as it was configured: the call
\* changes no option, and an each or map called on the Request after it runs its
\* batch under the configured concurrency, not under 1.
C34_ForEachKeepsConcurrency ==
  /\ [](call.nth >= 2 => Cardinality(InFlight) <= opts.concurrency)
  /\ [][call'.nth = call.nth + 1 =>
          /\ opts' = opts
          /\ (promise'.state = "pending" /\ call'.entry # "forEach") =>
               call'.n = opts.concurrency]_vars

\* After forEach on a Request of concurrency 2, each has two tasks in flight
C34_Witness ==
  /\ call.nth = 2
  /\ call.entry = "each"
  /\ opts.concurrency = 2
  /\ call.n = 2
  /\ Cardinality(InFlight) = 2

\* C35: one of transform and encoding is effective for a get.  With a transformer
\* the user's function is handed the transformer's result on the stored object,
\* whatever the encoding; without one it is handed the object's body decoded with
\* the Request's encoding, utf8 unless encode was called.  (The function is the
\* identity here, so what it returns is what it was handed.)
Handed(i) == result[i]
Stored(i) == InitialStore[sources[i].key]
C35_TransformOrEncoding ==
  \A i \in DOMAIN sources :
    (call.op = "map" /\ invoked[i] = 1 /\ Handed(i).t = "string") =>
      IF opts.transformer # "none"
      THEN Handed(i) = TransformFn(opts.transformer, Stored(i), sources[i].key)
      ELSE Handed(i) = JStr(Decode(Stored(i).Body, opts.encoding))

\* Under both an encoding and a transformer, the function was handed the
\* transformer's result on the object that is no UTF-8 text, which is neither
\* decoding of its body
C35_Witness ==
  /\ opts.transformer = "reverse"
  /\ opts.encoding = "latin1"
  /\ Len(sources) = NumObjects
  /\ invoked[NumObjects] = 1
  /\ Handed(NumObjects) = TransformFn("reverse", Stored(NumObjects), sources[NumObjects].key)
  /\ Handed(NumObjects) # JStr(Decode(Stored(NumObjects).Body, "latin1"))
  /\ Handed(NumObjects) # JStr(Decode(Stored(NumObjects).Body, "utf8"))

\* C36: reduce keeps the initial value it is called with whenever that is not
\* null, the falsy ones included: the accumulator starts as that value, so the
\* reducer's first call gets it, and over no sources reduce fulfils with it.
C36_InitialValueKept ==
  call.op = "reduce" =>
    /\ call.initialValue \in InitialValues
    /\ (batch.begun /\ \A i \in DOMAIN invoked : invoked[i] = 0) =>
         accumulator \in InitialValues

\* C37: when every store call is answered and every callback settles, the promise
\* of a terminal call is settled in the end, and once it is settled it stays as it
\* was settled.
Settled == promise.state \in {"fulfilled", "rejected", "threw"}
C37_EventuallySettles ==
  /\ (call.op # "none") ~> Settled
  /\ [][Settled => promise' = promise]_vars

\* C38: an asynchronous each (or forEach) whose gets all succeed and whose
\* callback promises all fulfil, with whatever value, fulfils: nothing is injected
\* that fails, so its promise is never rejected.
C38_AsyncValueIgnored ==
  (call.op = "each" /\ call.isAsync /\ failures = 0) => promise.state # "rejected"

\* C39: on a Request with both a target and inplace, the target wins: map puts and
\* filter copies under the target's prefix only, nothing is deleted, and no source
\* object is written or removed.
C39_TargetWins ==
  (call.op \in {"map", "filter"} /\ ~target.isNull /\ destructive = TRUE) =>
    /\ promise.state # "threw"
    /\ \A c \in calls :
         /\ c.op # "delete"
         /\ c.op \in {"put", "copy"} => (IsPrefixOf(target.prefix, c.key) /\ c.key \notin SrcKeys)
    /\ \A k \in SrcKeys : Exists(store, k) /\ store[k] = InitialStore[k]

\* A filter with a target and inplace has fulfilled after it refused a source and
\* copied another to the target
C39_Witness ==
  /\ call.op = "filter"
  /\ ~target.isNull
  /\ destructive = TRUE
  /\ promise.state = "fulfilled"
  /\ \E i \in DOMAIN result : result[i] = JBool(FALSE)
  /\ \E c \in calls : c.op = "copy"
  /\ \E k \in DOMAIN store : IsPrefixOf(TgtPrefix, k)
====
